---- MODULE Spec2Model ----
(***************************************************************************)
(* The WAD archive header/directory decoder of src/src/wad.rs:             *)
(* Wad::read (lines 82-122) and Entry::read (lines 126-162).               *)
(*                                                                         *)
(* The decoder is one sequential function.  Each read of the BinaryReader  *)
(* is one step of the model: `pc` is the position in the code, `pos` the   *)
(* reader's cursor, and the bytes a read yields are drawn from small input *)
(* sets, so that the buffer behind the reader is any byte sequence over    *)
(* those sets; any read may instead fail with an I/O error (the `?` after  *)
(* every read).  A returned value is `result`; the locals keep their last  *)
(* value after the return, where the caller sees `result` only.            *)
(*                                                                         *)
(* TLC's integers are 32 bits wide: the u64 and u32 inputs are byte        *)
(* patterns whose value stays below 2^31, and a usize that wrapped around  *)
(* is written as the negative number it is congruent to modulo 2^64.       *)
(***************************************************************************)
EXTENDS Integers, Sequences, FiniteSets, TLC

VARIABLES
    pc,           \* position in Wad::read / Entry::read
    pos,          \* the BinaryReader's cursor: bytes consumed so far
    head,         \* the raw bytes of the magic and the version, as consumed
    magic,        \* local `magic` (line 83)
    major,        \* local `major` (line 88)
    minor,        \* local `minor` (line 89)
    length,       \* local `length` (line 96), major 2 only
    sig_request,  \* the usize handed to read_bytes for the signature
    signature,    \* local `signature` (line 94)
    entry_count,  \* local `entry_count` (line 110)
    i,            \* iterations of the loop of line 112 already completed
    entries,      \* local `entries` (line 111): xxhash -> Entry
    entry,        \* the locals of Entry::read, then `entry` of line 113
    rec,          \* the raw bytes of the entry record being decoded
    result        \* what Wad::read returned

vars == <<pc, pos, head, magic, major, minor, length, sig_request, signature,
          entry_count, i, entries, entry, rec, result>>

----------------------------------------------------------------------------
(* Bounds and program constants *)

MaxEntries == 2

MaxMajor == 3

V2SignatureSpan == 83

V3SignatureLen == 256

ChecksumLen == 8

----------------------------------------------------------------------------
(* The bytes the stream may hold at each read *)

MagicInputs == {<<82, 87>>, <<82, 88>>, <<87, 82>>, <<114, 119>>}

MajorInputs == {0, 1, 2, 3, 4, 255}

MinorInputs == {0, 1, 255}

LengthInputs == {0, 40, 83, 84, 255}

SignatureInputs(n) == {[k \in 1..n |-> (7 * k) % 256]}

ReservedInputs == {<<0, 0, 0, 0, 0, 0, 0, 0>>, <<9, 8, 7, 6, 0, 0, 0, 0>>}

TocInputs == {<<0, 0>>, <<32, 0>>, <<255, 255>>}

CountInputs == {<<n, 0, 0, 0>> : n \in 0..MaxEntries}

HashInputs == {<<1, 0, 0, 0, 0, 0, 0, 0>>, <<0, 1, 0, 0, 0, 0, 0, 0>>}

OffsetInputs == {<<44, 1, 0, 0>>}

CompressedInputs == {<<255, 255, 255, 255>>}

UncompressedInputs == {<<0, 2, 0, 0>>}

FormatInputs == {0, 1, 2, 3, 4, 5, 255}

DuplicateInputs == {0, 1, 2, 255}

PaddingInputs == {<<0, 0>>}

ChecksumInputs(n) == {[k \in 1..n |-> k], [k \in 1..n |-> 0]}

----------------------------------------------------------------------------
(* The BinaryReader's decodings (crate::streaming::binary_reader) *)

RECURSIVE LittleEndian(_)
LittleEndian(bytes) ==
    IF bytes = <<>> THEN 0 ELSE Head(bytes) + 256 * LittleEndian(Tail(bytes))

read_u8(bytes) == bytes[1]

read_u16(bytes) == LittleEndian(bytes)

read_u32(bytes) == LittleEndian(bytes)

read_u64(bytes) == LittleEndian(bytes)

read_i32(bytes) ==
    LittleEndian(SubSeq(bytes, 1, 3))
        + 16777216 * (IF bytes[4] >= 128 THEN bytes[4] - 256 ELSE bytes[4])

Char(b) ==
    CASE b = 82 -> "R"
      [] b = 87 -> "W"
      [] b = 88 -> "X"
      [] b = 114 -> "r"
      [] b = 119 -> "w"
      [] OTHER -> "?"

RECURSIVE read_string(_)
read_string(bytes) ==
    IF bytes = <<>> THEN "" ELSE Char(Head(bytes)) \o read_string(Tail(bytes))

read_bytes(bytes) == bytes

----------------------------------------------------------------------------
(* Values *)

NoWad == [signature |-> <<>>, entries |-> <<>>]

Pending == [kind |-> "Pending", err |-> "", text |-> "", n1 |-> 0, n2 |-> 0,
            wad |-> NoWad]

Err(e, t, a, b) == [kind |-> "Err", err |-> e, text |-> t, n1 |-> a, n2 |-> b,
                    wad |-> NoWad]

IoError == Err("IoError", "", 0, 0)

InvalidSignature(s) == Err("InvalidSignature", s, 0, 0)

UnsupportedVersion(ma, mi) == Err("UnsupportedVersion", "", ma, mi)

DuplicateEntry(h) == Err("DuplicateEntry", "", h, 0)

UnknownEntryDataFormat(b) == Err("UnknownEntryDataFormat", "", b, 0)

Panic(msg) == [kind |-> "Panic", err |-> "", text |-> msg, n1 |-> 0, n2 |-> 0,
               wad |-> NoWad]

Ok(w) == [kind |-> "Ok", err |-> "", text |-> "", n1 |-> 0, n2 |-> 0, wad |-> w]

NoChecksum == [tag |-> "None", bytes |-> <<>>]

NoEntry == [xxhash |-> 0, data_offset |-> 0, compressed_size |-> 0,
            uncompressed_size |-> 0, data_format |-> "", is_duplicated |-> FALSE,
            data_checksum |-> NoChecksum]

----------------------------------------------------------------------------
(* The decisions of Wad::read and Entry::read *)

MagicOk_IgnoreCase(m) == m \in {"RW", "Rw", "rW", "rw"}

MagicOk(m) == m = "RW"

VersionSupported_OffByOne(ma) == ~(ma >= MaxMajor)

VersionSupported(ma) == ~(ma > MaxMajor)

SignatureLen_OffByOne(ma, len) ==
    CASE ma = 2 -> V2SignatureSpan + 1 - len
      [] ma = 3 -> V3SignatureLen
      [] OTHER -> 0

\* The usize `83 - length`: negative stands for the wrapped-around value.
SignatureLen(ma, len) ==
    CASE ma = 2 -> V2SignatureSpan - len
      [] ma = 3 -> V3SignatureLen
      [] OTHER -> 0

HasLegacyToc(ma) == ma = 1 \/ ma = 2

EntryDataFormatNames == <<"Raw", "GZip", "FileRedirection", "Zstd", "Unknown">>

EntryDataFormat_try_from_Fallback(b) ==
    IF b + 1 \in DOMAIN EntryDataFormatNames
    THEN [ok |-> TRUE, value |-> EntryDataFormatNames[b + 1], number |-> b]
    ELSE [ok |-> TRUE, value |-> "Unknown", number |-> b]

EntryDataFormat_try_from(b) ==
    IF b + 1 \in DOMAIN EntryDataFormatNames
    THEN [ok |-> TRUE, value |-> EntryDataFormatNames[b + 1], number |-> b]
    ELSE [ok |-> FALSE, value |-> "", number |-> b]

IsDuplicated_NonZero(b) == b # 0

IsDuplicated(b) == b = 1

HasChecksum(ma) == ma >= 2

ChecksumBlockLen_Short(ma) == IF HasChecksum(ma) THEN 2 ELSE 0

ChecksumBlockLen(ma) == IF HasChecksum(ma) THEN ChecksumLen ELSE 0

ChecksumTag_AnyV3(ma, mi) == IF ma = 3 THEN "XxHash3" ELSE "Sha256"

ChecksumTag(ma, mi) == IF ma = 3 /\ mi = 1 THEN "XxHash3" ELSE "Sha256"

InsertEntry_Overwrite(map, e) ==
    [ok |-> TRUE, map |-> (e.xxhash :> e) @@ map]

InsertEntry_KeepFirst(map, e) ==
    IF e.xxhash \in DOMAIN map
    THEN [ok |-> TRUE, map |-> map]
    ELSE [ok |-> TRUE, map |-> (e.xxhash :> e) @@ map]

\* hash_map::Entry: Occupied fails, Vacant inserts.
InsertEntry(map, e) ==
    IF e.xxhash \in DOMAIN map
    THEN [ok |-> FALSE, map |-> map]
    ELSE [ok |-> TRUE, map |-> (e.xxhash :> e) @@ map]

----------------------------------------------------------------------------
Init ==
    /\ pc = "magic"
    /\ pos = 0
    /\ head = <<>>
    /\ magic = ""
    /\ major = 0
    /\ minor = 0
    /\ length = 0
    /\ sig_request = 0
    /\ signature = <<>>
    /\ entry_count = 0
    /\ i = 0
    /\ entries = <<>>
    /\ entry = NoEntry
    /\ rec = <<>>
    /\ result = Pending

Return(r) == pc' = "done" /\ result' = r

\* line 83-86
ReadMagic ==
    /\ pc = "magic"
    /\ \E bytes \in MagicInputs :
        /\ pos' = pos + 2
        /\ head' = head \o bytes
        /\ magic' = read_string(bytes)
        /\ IF MagicOk(read_string(bytes))
           THEN pc' = "major" /\ result' = result
           ELSE Return(InvalidSignature(read_string(bytes)))
    /\ UNCHANGED <<major, minor, length, sig_request, signature, entry_count, i,
                   entries, entry, rec>>

\* line 88
ReadMajor ==
    /\ pc = "major"
    /\ \E b \in MajorInputs :
        /\ pos' = pos + 1
        /\ head' = Append(head, b)
        /\ major' = read_u8(<<b>>)
    /\ pc' = "minor"
    /\ UNCHANGED <<magic, minor, length, sig_request, signature, entry_count, i,
                   entries, entry, rec, result>>

\* line 89-92
ReadMinor ==
    /\ pc = "minor"
    /\ \E b \in MinorInputs :
        /\ pos' = pos + 1
        /\ head' = Append(head, b)
        /\ minor' = read_u8(<<b>>)
        /\ IF VersionSupported(major)
           THEN pc' = (IF major = 2 THEN "length" ELSE "signature")
                /\ result' = result
           ELSE Return(UnsupportedVersion(major, read_u8(<<b>>)))
    /\ UNCHANGED <<magic, major, length, sig_request, signature, entry_count, i,
                   entries, entry, rec>>

\* line 96
ReadLength ==
    /\ pc = "length"
    /\ \E b \in LengthInputs :
        /\ pos' = pos + 1
        /\ length' = read_u8(<<b>>)
    /\ pc' = "signature"
    /\ UNCHANGED <<head, magic, major, minor, sig_request, signature, entry_count,
                   i, entries, entry, rec, result>>

\* line 94-101, the subtraction of line 97 within usize
ReadSignature ==
    /\ pc = "signature"
    /\ SignatureLen(major, length) >= 0
    /\ sig_request' = SignatureLen(major, length)
    /\ \E bytes \in SignatureInputs(SignatureLen(major, length)) :
        /\ pos' = pos + Len(bytes)
        /\ signature' = read_bytes(bytes)
    /\ pc' = "unknown1"
    /\ UNCHANGED <<head, magic, major, minor, length, entry_count, i, entries,
                   entry, rec, result>>

\* line 97 when length > 83.  With overflow checks (a debug build) the
\* subtraction panics; without them (a release build) it wraps around and
\* read_bytes is asked for 2^64 - (length - 83) bytes, which no stream holds:
\* the read fails or the allocation of the buffer aborts.
ReadSignatureUnderflow ==
    /\ pc = "signature"
    /\ SignatureLen(major, length) < 0
    /\ \/ /\ Return(Panic("attempt to subtract with overflow"))
          /\ sig_request' = sig_request
       \/ /\ sig_request' = SignatureLen(major, length)
          /\ Return(IoError)
       \/ /\ sig_request' = SignatureLen(major, length)
          /\ Return(Panic("capacity overflow"))
    /\ UNCHANGED <<pos, head, magic, major, minor, length, signature, entry_count,
                   i, entries, entry, rec>>

\* line 103
ReadUnknown1 ==
    /\ pc = "unknown1"
    /\ \E bytes \in ReservedInputs : pos' = pos + Len(bytes)
    /\ pc' = (IF HasLegacyToc(major) THEN "toc_start_offset" ELSE "entry_count")
    /\ UNCHANGED <<head, magic, major, minor, length, sig_request, signature,
                   entry_count, i, entries, entry, rec, result>>

\* line 106
ReadTocStartOffset ==
    /\ pc = "toc_start_offset"
    /\ \E bytes \in TocInputs : pos' = pos + Len(bytes)
    /\ pc' = "toc_file_entry_size"
    /\ UNCHANGED <<head, magic, major, minor, length, sig_request, signature,
                   entry_count, i, entries, entry, rec, result>>

\* line 107
ReadTocFileEntrySize ==
    /\ pc = "toc_file_entry_size"
    /\ \E bytes \in TocInputs : pos' = pos + Len(bytes)
    /\ pc' = "entry_count"
    /\ UNCHANGED <<head, magic, major, minor, length, sig_request, signature,
                   entry_count, i, entries, entry, rec, result>>

\* line 110-111
ReadEntryCount ==
    /\ pc = "entry_count"
    /\ \E bytes \in CountInputs :
        /\ pos' = pos + Len(bytes)
        /\ entry_count' = read_u32(bytes)
    /\ entries' = <<>>
    /\ i' = 0
    /\ pc' = "loop"
    /\ UNCHANGED <<head, magic, major, minor, length, sig_request, signature,
                   entry, rec, result>>

\* line 112-113: one more iteration, entering Entry::read
LoopNext ==
    /\ pc = "loop"
    /\ i < entry_count
    /\ entry' = NoEntry
    /\ rec' = <<>>
    /\ pc' = "xxhash"
    /\ UNCHANGED <<pos, head, magic, major, minor, length, sig_request, signature,
                   entry_count, i, entries, result>>

\* line 121
ReturnOk ==
    /\ pc = "loop"
    /\ ~(i < entry_count)
    /\ Return(Ok([signature |-> signature, entries |-> entries]))
    /\ UNCHANGED <<pos, head, magic, major, minor, length, sig_request, signature,
                   entry_count, i, entries, entry, rec>>

headerVars == <<head, magic, major, minor, length, sig_request, signature,
                entry_count, i, entries>>

\* One read of Entry::read: the cursor advances over the bytes it yields.
Consume(bytes) ==
    /\ pos' = pos + Len(bytes)
    /\ rec' = rec \o bytes

\* line 131
ReadXxhash ==
    /\ pc = "xxhash"
    /\ \E bytes \in HashInputs :
        /\ Consume(bytes)
        /\ entry' = [entry EXCEPT !.xxhash = read_u64(bytes)]
    /\ pc' = "data_offset"
    /\ UNCHANGED <<headerVars, result>>

\* line 132
ReadDataOffset ==
    /\ pc = "data_offset"
    /\ \E bytes \in OffsetInputs :
        /\ Consume(bytes)
        /\ entry' = [entry EXCEPT !.data_offset = read_u32(bytes)]
    /\ pc' = "compressed_size"
    /\ UNCHANGED <<headerVars, result>>

\* line 133
ReadCompressedSize ==
    /\ pc = "compressed_size"
    /\ \E bytes \in CompressedInputs :
        /\ Consume(bytes)
        /\ entry' = [entry EXCEPT !.compressed_size = read_i32(bytes)]
    /\ pc' = "uncompressed_size"
    /\ UNCHANGED <<headerVars, result>>

\* line 134
ReadUncompressedSize ==
    /\ pc = "uncompressed_size"
    /\ \E bytes \in UncompressedInputs :
        /\ Consume(bytes)
        /\ entry' = [entry EXCEPT !.uncompressed_size = read_i32(bytes)]
    /\ pc' = "data_format"
    /\ UNCHANGED <<headerVars, result>>

\* line 135-138, and the `?` of line 113
ReadDataFormat ==
    /\ pc = "data_format"
    /\ \E b \in FormatInputs :
        LET r == EntryDataFormat_try_from(read_u8(<<b>>)) IN
        /\ Consume(<<b>>)
        /\ IF r.ok
           THEN /\ entry' = [entry EXCEPT !.data_format = r.value]
                /\ pc' = "is_duplicated"
                /\ result' = result
           ELSE /\ entry' = entry
                /\ Return(UnknownEntryDataFormat(r.number))
    /\ UNCHANGED headerVars

\* line 139
ReadIsDuplicated ==
    /\ pc = "is_duplicated"
    /\ \E b \in DuplicateInputs :
        /\ Consume(<<b>>)
        /\ entry' = [entry EXCEPT !.is_duplicated = IsDuplicated(read_u8(<<b>>))]
    /\ pc' = "padding"
    /\ UNCHANGED <<headerVars, result>>

\* line 141
ReadPadding ==
    /\ pc = "padding"
    /\ \E bytes \in PaddingInputs : Consume(bytes)
    /\ pc' = "data_checksum"
    /\ UNCHANGED <<headerVars, entry, result>>

\* line 143-148
ReadDataChecksum ==
    /\ pc = "data_checksum"
    /\ HasChecksum(major)
    /\ \E bytes \in ChecksumInputs(ChecksumBlockLen(major)) :
        /\ Consume(bytes)
        /\ entry' = [entry EXCEPT !.data_checksum =
                        [tag |-> ChecksumTag(major, minor),
                         bytes |-> read_bytes(bytes)]]
    /\ pc' = "insert"
    /\ UNCHANGED <<headerVars, result>>

\* line 149-151
NoDataChecksum ==
    /\ pc = "data_checksum"
    /\ ~HasChecksum(major)
    /\ entry' = [entry EXCEPT !.data_checksum = NoChecksum]
    /\ pc' = "insert"
    /\ UNCHANGED <<headerVars, pos, rec, result>>

\* line 115-118
Insert ==
    /\ pc = "insert"
    /\ LET r == InsertEntry(entries, entry) IN
        IF r.ok
        THEN /\ entries' = r.map
             /\ i' = i + 1
             /\ pc' = "loop"
             /\ result' = result
        ELSE /\ Return(DuplicateEntry(entry.xxhash))
             /\ UNCHANGED <<entries, i>>
    /\ UNCHANGED <<pos, head, magic, major, minor, length, sig_request, signature,
                   entry_count, entry, rec>>

\* The places where the code reads from the BinaryReader.
Reading ==
    \/ pc \in {"magic", "major", "minor", "length", "unknown1",
               "toc_start_offset", "toc_file_entry_size", "entry_count",
               "xxhash", "data_offset", "compressed_size", "uncompressed_size",
               "data_format", "is_duplicated", "padding"}
    \/ pc = "signature" /\ SignatureLen(major, length) > 0
    \/ pc = "data_checksum" /\ HasChecksum(major)

\* line 27-31: a read fails and `?` returns the I/O error.
ReadFails ==
    /\ Reading
    /\ Return(IoError)
    /\ UNCHANGED <<pos, head, magic, major, minor, length, sig_request, signature,
                   entry_count, i, entries, entry, rec>>

Next ==
    \/ ReadMagic
    \/ ReadMajor
    \/ ReadMinor
    \/ ReadLength
    \/ ReadSignature
    \/ ReadSignatureUnderflow
    \/ ReadUnknown1
    \/ ReadTocStartOffset
    \/ ReadTocFileEntrySize
    \/ ReadEntryCount
    \/ LoopNext
    \/ ReturnOk
    \/ ReadXxhash
    \/ ReadDataOffset
    \/ ReadCompressedSize
    \/ ReadUncompressedSize
    \/ ReadDataFormat
    \/ ReadIsDuplicated
    \/ ReadPadding
    \/ ReadDataChecksum
    \/ NoDataChecksum
    \/ Insert
    \/ ReadFails

Spec == Init /\ [][Next]_vars

----------------------------------------------------------------------------
(* What the wire format of the archive says, for the statements below *)

Returned(e) == result.kind = "Err" /\ result.err = e

\* The offset of the first entry record: magic, version, the header fields
\* and the entry count.
RecordsStart ==
    4 + (IF major = 2 THEN 1 ELSE 0) + Len(signature) + 8
      + (IF major \in {1, 2} THEN 4 ELSE 0) + 4

\* The length of one entry record.
RecordLen == IF major < 2 THEN 24 ELSE 32

\* The entry record is decoded: Entry::read returned Ok.
EntryDecoded == pc = "insert"

----------------------------------------------------------------------------
\* C1: for every input on which Wad::read returns Ok with entry count N,
\* every key of the directory is the xxhash of the Entry stored under it, no
\* two stored entries share an xxhash, and the directory holds exactly N
\* entries, one per completed iteration.
C1_DirectoryKeyedByHash ==
    result.kind = "Ok" =>
        LET d == result.wad.entries IN
        /\ \A k \in DOMAIN d : d[k].xxhash = k
        /\ \A a, b \in DOMAIN d : d[a].xxhash = d[b].xxhash => a = b
        /\ Cardinality(DOMAIN d) = entry_count
        /\ i = entry_count

C1_Witness ==
    /\ result.kind = "Ok"
    /\ entry_count = 2
    /\ DOMAIN result.wad.entries = {1, 256}

\* C2 (the returned error): a DuplicateEntry error carries the xxhash of the
\* record just decoded, which an earlier record of the archive has; the
\* records before it were all distinct; the cursor stands at the end of that
\* record; and no Archive is returned.
C2_DuplicateReturned ==
    Returned("DuplicateEntry") =>
        /\ Len(rec) = RecordLen
        /\ result.n1 = read_u64(SubSeq(rec, 1, 8))
        /\ result.n1 \in DOMAIN entries
        /\ Cardinality(DOMAIN entries) = i
        /\ i < entry_count
        /\ pos = RecordsStart + (i + 1) * RecordLen
        /\ result.wad = NoWad

\* C2 (the step): when the record just decoded has the xxhash of an earlier
\* record, the next step returns DuplicateEntry with that xxhash, reads
\* nothing more and leaves the directory as it was.
C2_DuplicateStep ==
    (EntryDecoded /\ entry.xxhash \in DOMAIN entries) =>
        /\ pc' = "done"
        /\ result' = DuplicateEntry(entry.xxhash)
        /\ pos' = pos
        /\ entries' = entries

C3_InvalidSignature ==
    (Len(head) >= 2 /\ read_string(SubSeq(head, 1, 2)) # "RW") =>
        /\ pc = "done"
        /\ result = InvalidSignature(read_string(SubSeq(head, 1, 2)))
        /\ pos = 2
        /\ Len(head) = 2

C3_Witness ==
    /\ Returned("InvalidSignature")
    /\ result.text = "rw"
    /\ pos = 2

\* C4: after "RW", a major byte and a minor byte, major > 3 makes Wad::read
\* fail with UnsupportedVersion(major, minor) carrying both bytes as read, with
\* nothing after them read; and UnsupportedVersion is returned for no
\* major <= 3, whatever the minor.
C4_UnsupportedVersion ==
    /\ (Len(head) = 4 /\ head[3] > 3) =>
            /\ pc = "done"
            /\ result = UnsupportedVersion(head[3], head[4])
            /\ pos = 4
    /\ Returned("UnsupportedVersion") => (Len(head) = 4 /\ head[3] > 3)
    /\ (Len(head) = 4 /\ head[3] <= 3) => ~Returned("UnsupportedVersion")

C4_Witness ==
    /\ result = UnsupportedVersion(4, 255)
    /\ pos = 4

\* The checksum variant the version pair selects.
C5_Tag == 
    IF major < 2 THEN "None"
    ELSE IF major = 3 /\ minor = 1 THEN "XxHash3" ELSE "Sha256"

\* C5: the checksum variant of a decoded entry is decided by (major, minor)
\* alone: None, with no checksum byte read, when major < 2; XxHash3 exactly
\* when major = 3 and minor = 1; Sha256 for every other major >= 2; and the
\* payload of the two latter is the 8 bytes read after the 24 fixed bytes of
\* the record, in order.
C5_ChecksumByVersion ==
    /\ EntryDecoded =>
        /\ entry.data_checksum.tag = C5_Tag
        /\ major < 2 => (entry.data_checksum.bytes = <<>> /\ Len(rec) = 24)
        /\ major >= 2 =>
            (Len(rec) = 32 /\ entry.data_checksum.bytes = SubSeq(rec, 25, 32))
    /\ \A k \in DOMAIN entries : entries[k].data_checksum.tag = C5_Tag

C5_Witness ==
    /\ EntryDecoded
    /\ major = 3
    /\ minor = 1
    /\ entry.data_checksum = [tag |-> "XxHash3", bytes |-> <<1, 2, 3, 4, 5, 6, 7, 8>>]

\* C6: between the version bytes and the entry count Wad::read consumes, for
\* major 2 with length byte L <= 83, the length byte, 83 - L signature bytes,
\* the 8 reserved bytes and the two 2-byte legacy fields; for major 3, 256
\* signature bytes and the reserved bytes; for major 1, the reserved bytes and
\* the legacy fields; for major 0, the reserved bytes only.  With entry count
\* 0 the decode then returns Ok with an empty directory and that signature.
C6_HeaderLayout ==
    /\ pc = "entry_count" =>
        /\ major = 2 =>
            /\ length <= 83
            /\ Len(signature) = 83 - length
            /\ pos - 4 = 1 + (83 - length) + 8 + 2 + 2
        /\ major = 3 => (Len(signature) = 256 /\ pos - 4 = 256 + 8)
        /\ major = 1 => (signature = <<>> /\ pos - 4 = 8 + 2 + 2)
        /\ major = 0 => (signature = <<>> /\ pos - 4 = 8)
    /\ (pc = "done" /\ entry_count = 0 /\ result.kind # "Ok") =>
            pos < RecordsStart
    /\ (result.kind = "Ok" /\ entry_count = 0) =>
        /\ result.wad = [signature |-> signature, entries |-> <<>>]
        /\ pos = RecordsStart

C6_Witness ==
    /\ result.kind = "Ok"
    /\ major = 2
    /\ length = 0
    /\ Len(result.wad.signature) = 83
    /\ pos = 104

\* C7 as claimed: an entry record is 24 bytes without a checksum block and 26
\* bytes with one.
C7_Claimed ==
    EntryDecoded => Len(rec) = (IF major < 2 THEN 24 ELSE 26)

\* C7, amended: every successful Entry::read consumes exactly one entry
\* record, 24 bytes when major < 2 and 32 bytes (24 and the 8 of the checksum
\* block) when major >= 2, so that i decoded entries advance the stream by i
\* times that length.
C7_RecordLength ==
    /\ EntryDecoded =>
        /\ Len(rec) = (IF major < 2 THEN 24 ELSE 32)
        /\ pos = RecordsStart + (i + 1) * (IF major < 2 THEN 24 ELSE 32)
    /\ pc = "loop" => pos = RecordsStart + i * (IF major < 2 THEN 24 ELSE 32)
    /\ result.kind = "Ok" =>
            pos = RecordsStart + entry_count * (IF major < 2 THEN 24 ELSE 32)

C7_Witness ==
    /\ result.kind = "Ok"
    /\ major = 3
    /\ entry_count = 2
    /\ pos = 272 + 64

\* C8: a format byte 0..4 decodes by ordinal to Raw, GZip, FileRedirection,
\* Zstd, Unknown; every other byte makes the decode fail with
\* UnknownEntryDataFormat carrying the byte, as soon as it is read (21 bytes
\* into the record, before the duplicate flag, the reserved bytes and the
\* checksum block), and the whole archive decode returns that error.
C8_FormatByte ==
    /\ Returned("UnknownEntryDataFormat") =>
        /\ pc = "done"
        /\ Len(rec) = 21
        /\ result.n1 = rec[21]
        /\ rec[21] \notin 0..4
        /\ pos = RecordsStart + i * RecordLen + 21
        /\ result.wad = NoWad
    /\ (Len(rec) >= 21 /\ rec[21] \in 0..4) =>
        /\ ~Returned("UnknownEntryDataFormat")
        /\ entry.data_format =
              <<"Raw", "GZip", "FileRedirection", "Zstd", "Unknown">>[rec[21] + 1]
    /\ (Len(rec) >= 21 /\ rec[21] \notin 0..4) =>
            result = UnknownEntryDataFormat(rec[21])

C8_Witness ==
    /\ result = UnknownEntryDataFormat(5)
    /\ i = 1
    /\ Len(rec) = 21

\* C9 as claimed: is_duplicated is true for every non-zero flag byte.
C9_Claimed ==
    EntryDecoded => (entry.is_duplicated <=> rec[22] # 0)

\* C9, amended: is_duplicated is true exactly when the flag byte is 1; it is
\* false when the byte is 0 and for every byte 2..255.
C9_IsDuplicated ==
    Len(rec) >= 22 => (entry.is_duplicated <=> rec[22] = 1)

C9_Witness ==
    /\ EntryDecoded
    /\ rec[22] = 255
    /\ entry.is_duplicated = FALSE

\* C10: for major 2 with a length byte above 83, the signature length is
\* never computed as a wrapped-around value and the decode is rejected with
\* an "invalid signature length" error.
C10_Claimed ==
    (pc = "done" /\ major = 2 /\ length > 83) =>
        /\ Returned("InvalidSignatureLength")
        /\ sig_request >= 0

====
